---- MODULE Spec2Model ----
(***************************************************************************)
(* otcbot: a Matrix bot that joins rooms on invitation (main.rs,           *)
(* on_stripped_state_member), parses "!otcbot ..." commands from room      *)
(* messages (otcbot_cmd, on_room_message) and runs a skopeo copy for       *)
(* "registry import" (otcbot_registry).                                    *)
(*                                                                         *)
(* Text is modelled as a sequence of pieces (strings); a message body is a *)
(* sequence of symbols in which " " is the space character, so that        *)
(* starts_with, split(" "), join(" ") and format! are computed, not        *)
(* assumed.                                                                *)
(***************************************************************************)
EXTENDS Integers, Sequences, FiniteSets, TLC

\* ------------------------------------------------------------------ bounds
\* Notifications (member events and room messages) delivered in one run.
MaxEvents == 2

\* --------------------------------------------------------- program constants
InitialDelay == 2
DelayCeiling == 3600
BackoffFactor == 2

PREFIX == "!otcbot"
SP == " "
SKOPEO == "/usr/local/bin/skopeo"

\* ------------------------------------------------------------- environment
Rooms == {"!r1", "!r2"}
RoomKinds == {"invited", "joined", "left"}
OwnUserId == "@otcbot"
UserIds == {OwnUserId, "@alice"}
Senders == {"@alice"}
MsgTypes == {"text", "image"}

\* config.registry.images: image key -> ImageConfig
ImageConfig(upstream, downstream) == [upstream |-> upstream, downstream |-> downstream]
ConfiguredKeys == { <<"foo">>, <<"etcd">> }
Images(key) == IF key = <<"foo">> THEN ImageConfig(<<"a/b">>, <<"c/d">>)
               ELSE IF key = <<"etcd">> THEN ImageConfig(<<"quay.io/etcd">>, <<"swr/etcd">>)
               ELSE ImageConfig(<<>>, <<>>)
\* A lookup that never misses (e.g. one that falls back to a default entry).
IsConfiguredAlways(key) == TRUE

\* config.registry.images.get(image_key) is Some(..)
IsConfigured(key) == key \in ConfiguredKeys

\* --------------------------------------------------------------- text helpers
RECURSIVE SplitFrom(_, _, _)
\* str::split(sep): cur is the token being accumulated.
SplitFrom(s, sep, cur) ==
    IF s = <<>> THEN << cur >>
    ELSE IF Head(s) = sep THEN << cur >> \o SplitFrom(Tail(s), sep, <<>>)
    ELSE SplitFrom(Tail(s), sep, Append(cur, Head(s)))

Split(s, sep) == SplitFrom(s, sep, <<>>)

RECURSIVE Join(_, _)
\* [&str]::join(sep)
Join(ws, sep) ==
    IF ws = <<>> THEN <<>>
    ELSE IF Len(ws) = 1 THEN ws[1]
    ELSE ws[1] \o <<sep>> \o Join(Tail(ws), sep)

StartsWith(s, p) == Len(s) >= 1 /\ s[1] = p

\* --------------------------------------------------------------- otcbot_cmd
\* A token is the text between two spaces; Tok(s) is the one-symbol token s.
Tok(s) == << s >>

IsHelpFlag(t) == t \in { Tok("-h"), Tok("--help") }

\* Subcommand paths that the generated `help` subcommand accepts, below the
\* top-level command and below `registry`.
HelpPaths ==
    { <<>>, << Tok("gm") >>, << Tok("party") >>, << Tok("registry") >>,
      << Tok("registry"), Tok("import") >>, << Tok("help") >> }
RegistryHelpPaths == { <<>>, << Tok("import") >>, << Tok("help") >> }

Matched(name, image, tag) ==
    [ok |-> TRUE, name |-> name, image |-> image, tag |-> tag, kind |-> "none", scope |-> <<>>]
DisplayHelp(scope) ==
    [ok |-> FALSE, name |-> "none", image |-> <<>>, tag |-> <<>>, kind |-> "DisplayHelp", scope |-> scope]
ParseError(kind) ==
    [ok |-> FALSE, name |-> "none", image |-> <<>>, tag |-> <<>>, kind |-> kind, scope |-> <<>>]

\* The generated `help [COMMAND]...` subcommand below the command `scope`.
ParseHelp(rest, scope, paths) ==
    IF rest \in paths THEN DisplayHelp(scope \o Join(rest, SP))
    ELSE ParseError("InvalidSubcommand")

\* `gm` and `party`: no arguments.
ParseLeaf(rest, name) ==
    IF rest = <<>> THEN Matched(name, <<>>, <<>>)
    ELSE IF IsHelpFlag(rest[1]) THEN DisplayHelp(<<PREFIX, SP, name>>)
    ELSE ParseError("UnknownArgument")

RECURSIVE ParseImport(_, _)
\* `registry import <IMAGE> <TAG>`: pos holds the positionals read so far.
ParseImport(rest, pos) ==
    IF rest = <<>>
    THEN IF Len(pos) = 2 THEN Matched("registry", pos[1], pos[2])
         ELSE ParseError("MissingRequiredArgument")
    ELSE IF IsHelpFlag(rest[1]) THEN DisplayHelp(<<PREFIX, SP, "registry", SP, "import">>)
    ELSE IF Len(pos) = 2 THEN ParseError("UnknownArgument")
    ELSE ParseImport(Tail(rest), Append(pos, rest[1]))

\* `registry`: subcommand_required, arg_required_else_help.
ParseRegistry(rest) ==
    IF rest = <<>> THEN ParseError("DisplayHelpOnMissingArgumentOrSubcommand")
    ELSE IF IsHelpFlag(rest[1]) THEN DisplayHelp(<<PREFIX, SP, "registry">>)
    ELSE IF rest[1] = Tok("help") THEN ParseHelp(Tail(rest), <<PREFIX, SP, "registry", SP>>, RegistryHelpPaths)
    ELSE IF rest[1] = Tok("import") THEN ParseImport(Tail(rest), <<>>)
    ELSE ParseError("InvalidSubcommand")

\* A parser that matches the first word as an argument too (get_matches_from
\* without a binary name).
TryGetMatchesFromNoBinName(words) ==
    IF words = <<>> THEN ParseError("MissingSubcommand")
    ELSE IF IsHelpFlag(words[1]) THEN DisplayHelp(<<PREFIX>>)
    ELSE IF words[1] = Tok("help") THEN ParseHelp(Tail(words), <<PREFIX, SP>>, HelpPaths)
    ELSE IF words[1] = Tok("gm") THEN ParseLeaf(Tail(words), "gm")
    ELSE IF words[1] = Tok("party") THEN ParseLeaf(Tail(words), "party")
    ELSE IF words[1] = Tok("registry") THEN ParseRegistry(Tail(words))
    ELSE ParseError("InvalidSubcommand")

\* otcbot_cmd().try_get_matches_from(words): words[1] is the binary name and
\* is not matched against anything.
TryGetMatchesFrom(words) ==
    LET args == Tail(words) IN
    IF args = <<>> THEN ParseError("MissingSubcommand")
    ELSE IF IsHelpFlag(args[1]) THEN DisplayHelp(<<PREFIX>>)
    ELSE IF args[1] = Tok("help") THEN ParseHelp(Tail(args), <<PREFIX, SP>>, HelpPaths)
    ELSE IF args[1] = Tok("gm") THEN ParseLeaf(Tail(args), "gm")
    ELSE IF args[1] = Tok("party") THEN ParseLeaf(Tail(args), "party")
    ELSE IF args[1] = Tok("registry") THEN ParseRegistry(Tail(args))
    ELSE ParseError("InvalidSubcommand")

\* e.to_string() of a DisplayHelp error: the usage of the requested scope.
ErrorToString(e) == <<"Usage: ">> \o e.scope
\* otcbot_cmd().render_long_help().to_string()
RenderLongHelp == <<"An awesome OTC Bot", "\n\n", "Usage: ", PREFIX, " <COMMAND>">>

\* ------------------------------------------------------------ message texts
GreetText(sender) == <<"Hey ", sender>>
PartyText == <<"let's PARTY!!">>
AckText(image, tag) ==
    <<"Got it. Importing ">> \o image.upstream \o <<":">> \o tag \o <<" to ">>
        \o image.downstream \o <<":">> \o tag \o <<" ...">>
NotConfiguredText(key) == <<"Image ">> \o key \o <<" is not configured">>

\* format!("docker://{}:{}", repo, tag)
DockerRef(repo, tag) == <<"docker://">> \o repo \o <<":">> \o tag
\* Source and destination exchanged.
CommandArgsSwapped(image, tag) ==
    << <<"copy">>, DockerRef(image.downstream, tag), DockerRef(image.upstream, tag), <<"-a">> >>

CommandArgs(image, tag) ==
    << <<"copy">>, DockerRef(image.upstream, tag), DockerRef(image.downstream, tag), <<"-a">> >>

\* The markdown code fence (three backticks) is written MDFENCE.
LogBanner == <<"MDFENCE", "\n", "otcbot$> skopeo">>
LogClose == <<"\n", "MDFENCE">>
\* The transcript up to the process call (lines 288-296).
LogHead(args) == LogBanner \o <<SP>> \o Join(args, SP) \o <<"\n">>

\* String::from_utf8
FromUtf8(bytes) == [ok |-> bytes.utf8, text |-> bytes.text]

\* ------------------------------------------------------------------- inputs
\* Argument lists typed after the first word of a message.
ArgLists ==
    { <<>>, <<"gm">>, <<"party">>, <<"help">>, <<"-h">>, <<"dance">>,
      <<"gm", "now">>, <<"help", "registry">>, <<"registry">>,
      <<"registry", "import">>, <<"registry", "import", "foo">>,
      <<"registry", "import", "foo", "v1">>, <<"registry", "import", "bar", "v1">>,
      <<"registry", "import", "etcd", "v2">>,
      <<"registry", "import", "foo", "v1", "now">>, <<"registry", "import", "-h">> }

Toks(a) == [i \in 1..Len(a) |-> Tok(a[i])]

\* First words: the prefix, the prefix run together with more text
\* ("!otcbotx"), and ordinary chat.
Bodies ==
    { Join(<< <<PREFIX>> >> \o Toks(a), SP) : a \in ArgLists }
    \cup { Join(<< <<PREFIX, "x">> >> \o Toks(a), SP) : a \in { <<>>, <<"gm">> } }
    \cup { Join(<< <<"hello">> >> \o Toks(a), SP) : a \in { <<>>, <<"gm">> } }
    \cup { <<>>, <<PREFIX, SP, SP, "gm">> }

\* Only MessageType::Text has a body the handler looks at (lines 203-209).
BodiesOf(msgtype) == IF msgtype = "text" THEN Bodies ELSE { <<>> }

Bytes(utf8, text) == [utf8 |-> utf8, text |-> text]
\* std::process::Output of a started process
Outputs ==
    { [success |-> s, stdout |-> Bytes(o, <<"copied">>), stderr |-> Bytes(e, <<"denied">>)] :
        s \in BOOLEAN, o \in BOOLEAN, e \in BOOLEAN }
NoOutput == [success |-> FALSE, stdout |-> Bytes(TRUE, <<>>), stderr |-> Bytes(TRUE, <<>>)]

\* -------------------------------------------------------------------- state
VARIABLES
    proc,        \* "running" | "crashed" (a panic unwinds main) | "shutdown" (ctrl_c)
    roomState,   \* the client's view of each room: Room::Invited / Joined / Left
    delivered,   \* notifications handed to the handlers so far
    members,     \* of these, the member events given to on_stripped_state_member
    tasks,       \* the tasks spawned by on_stripped_state_member
    issued,      \* the room calls made so far: room and number of the causing event
    pc,          \* position of the on_room_message handler ("unregistered"
                 \* until add_event_handler(on_room_message))
    msg,         \* the event it handles
    reply,       \* the text about to be sent
    cmd,         \* the parsed registry import: image_key, image_tag
    log,         \* otcbot_registry's transcript
    output,      \* command_result
    ops,         \* calls made on the room and on the process API while handling msg
    parses,      \* calls of try_get_matches_from while handling msg
    ret          \* otcbot_registry's return: "none" | "Ok"

vars == <<proc, roomState, delivered, members, tasks, issued, pc, msg, reply, cmd, log, output, ops, parses, ret>>
handlerVars == <<pc, msg, reply, cmd, log, output, ops, parses, ret>>

NoMsg == [room |-> "none", room_kind |-> "none", msgtype |-> "none", body |-> <<>>,
          sender |-> "none", event_id |-> <<>>]
NoCmd == [image_key |-> <<>>, image_tag |-> <<>>]

\* One call on the room (send, typing_notice, read_receipt) or on the
\* process API (output); ok is what the call returned.
Op(kind, args, ok) == [op |-> kind, args |-> args, ok |-> ok]

\* The spawned task; state_key and room_kind are the event it was spawned for.
NewTask(room, state_key, room_kind) ==
    [room |-> room, state_key |-> state_key, room_kind |-> room_kind, pc |-> "join", delay |-> InitialDelay, attempts |-> 0,
     slept |-> <<>>, last_ok |-> FALSE,
     diags |-> << [kind |-> "autojoining", room |-> room, delay |-> 0] >>]

Diag(kind, room, delay) == [kind |-> kind, room |-> room, delay |-> delay]

Init ==
    /\ proc = "running"
    /\ roomState \in [Rooms -> RoomKinds]
    /\ delivered = 0
    /\ members = 0
    /\ tasks = <<>>
    /\ issued = <<>>
    /\ pc = "unregistered"
    /\ msg = NoMsg
    /\ reply = <<>>
    /\ cmd = NoCmd
    /\ log = <<>>
    /\ output = NoOutput
    /\ ops = <<>>
    /\ parses = 0
    /\ ret = "none"

\* ------------------------------------------------- on_stripped_state_member
\* A handler that forgets the state_key test of line 132.
ShouldJoinAnyone(state_key, room_kind) == room_kind = "invited"

\* Handlers that are started while an earlier one is still awaiting.
HandlerFreeAlways == pc \in {"idle", "done", "send_reply", "reg_none", "reg_ack", "receipt"}

\* on_room_message registered together with on_stripped_state_member, before
\* the initial sync_once.
HandlerFreeEarly == pc \in {"unregistered", "idle", "done"}

\* client.sync awaits each handler call before it makes the next one, and
\* on_room_message awaits every call it makes instead of spawning it: the
\* next notification is taken up when the handler has returned.
HandlerFree == pc \in {"idle", "done"}

\* Lines 132-138: the event is for us and the room is Room::Invited.
ShouldJoin(state_key, room_kind) == state_key = OwnUserId /\ room_kind = "invited"

\* The handler itself never awaits: it returns at once or spawns the task.
\* The sync task calls the handlers one after the other, so it is not called
\* while on_room_message is still awaiting.
OnStrippedStateMember(room, state_key) ==
    /\ proc = "running"
    /\ pc = "unregistered" \/ HandlerFree
    /\ delivered < MaxEvents
    /\ delivered' = delivered + 1
    /\ members' = members + 1
    /\ tasks' = IF ShouldJoin(state_key, roomState[room])
                THEN Append(tasks, NewTask(room, state_key, roomState[room]))
                ELSE tasks
    /\ UNCHANGED <<proc, roomState, issued, handlerVars>>

\* Tasks that outlive the runtime (detached threads instead of tokio::spawn).
TaskAliveDetached == proc # "crashed"

\* A spawned task is polled only while the runtime of #[tokio::main] lives:
\* it is dropped when main returns (ctrl_c) or unwinds (panic).
TaskAlive == proc = "running"

\* A backoff that adds instead of doubling.
NextDelayLinear(delay) == delay + BackoffFactor

\* delay *= 2
NextDelay(delay) == delay * BackoffFactor

\* A ceiling test that lets one more doubling through.
GivesUpLate(delay) == delay > 2 * DelayCeiling

\* if delay > 3600 { ...; break; }
GivesUp(delay) == delay > DelayCeiling

\* What the task prints once the while loop is left (line 164).
AfterLoopDiags(room) == << Diag("joined", room, 0) >>

\* room.accept_invitation().await and, on Err, the eprintln! before the sleep.
TaskJoin(i) ==
    /\ TaskAlive
    /\ i \in 1..Len(tasks)
    /\ tasks[i].pc = "join"
    /\ \E ok \in BOOLEAN :
        LET t == tasks[i] IN
        IF ok
        THEN /\ tasks' = [tasks EXCEPT ![i] =
                    [t EXCEPT !.pc = "done", !.attempts = @ + 1, !.last_ok = TRUE,
                              !.diags = @ \o AfterLoopDiags(t.room)]]
             /\ roomState' = [roomState EXCEPT ![t.room] = "joined"]
        ELSE /\ tasks' = [tasks EXCEPT ![i] =
                    [t EXCEPT !.pc = "sleep", !.attempts = @ + 1, !.last_ok = FALSE,
                              !.diags = Append(@, Diag("failed", t.room, t.delay))]]
             /\ UNCHANGED roomState
    /\ UNCHANGED <<proc, delivered, members, issued, handlerVars>>

\* A delay kept in one variable that all the sequences share.
TaskWakeShared(i) ==
    /\ TaskAlive
    /\ i \in 1..Len(tasks)
    /\ tasks[i].pc = "sleep"
    /\ LET d == NextDelay(tasks[i].delay) IN
        tasks' = [j \in DOMAIN tasks |->
            IF j # i
            THEN [tasks[j] EXCEPT !.delay = d]
            ELSE IF GivesUp(d)
            THEN [tasks[j] EXCEPT !.pc = "done", !.delay = d, !.slept = Append(@, tasks[j].delay),
                                  !.diags = Append(@, Diag("cant_join", tasks[j].room, 0))
                                                \o AfterLoopDiags(tasks[j].room)]
            ELSE [tasks[j] EXCEPT !.pc = "join", !.delay = d, !.slept = Append(@, tasks[j].delay)]]
    /\ UNCHANGED <<proc, roomState, delivered, members, issued, handlerVars>>

\* sleep(delay) returns; delay *= 2; the ceiling test; break or loop.
TaskWake(i) ==
    /\ TaskAlive
    /\ i \in 1..Len(tasks)
    /\ tasks[i].pc = "sleep"
    /\ LET t == tasks[i]
           d == NextDelay(t.delay)
       IN tasks' = [tasks EXCEPT ![i] =
            IF GivesUp(d)
            THEN [t EXCEPT !.pc = "done", !.delay = d, !.slept = Append(@, t.delay),
                           !.diags = Append(@, Diag("cant_join", t.room, 0))
                                        \o AfterLoopDiags(t.room)]
            ELSE [t EXCEPT !.pc = "join", !.delay = d, !.slept = Append(@, t.delay)]]
    /\ UNCHANGED <<proc, roomState, delivered, members, issued, handlerVars>>

\* ---------------------------------------------------------- on_room_message
EventId(n) == << "$", ToString(n) >>

\* if msg_body.len() > 0 { room.read_receipt(..) }
AfterCommand(body) == IF Len(body) > 0 THEN "receipt" ELSE "done"

\* An .unwrap() / .expect() on Err: the panic unwinds through client.sync
\* and main, which ends the process.
Panic ==
    /\ pc' = "panicked"
    /\ proc' = "crashed"

\* Where the handler stands at its first await, and what it is about to send.
\* Lines 202-258 and, for `registry`, lines 271-283 / 314-321.
Route(room_kind, msgtype, body, sender) ==
    IF room_kind # "joined" \/ msgtype # "text"
    THEN [pc |-> "done", reply |-> <<>>, cmd |-> NoCmd, parses |-> 0]
    ELSE IF ~StartsWith(body, PREFIX)
    THEN [pc |-> AfterCommand(body), reply |-> <<>>, cmd |-> NoCmd, parses |-> 0]
    ELSE LET m == TryGetMatchesFrom(Split(body, SP)) IN
         IF m.ok /\ m.name = "gm"
         THEN [pc |-> "send_reply", reply |-> GreetText(sender), cmd |-> NoCmd, parses |-> 1]
         ELSE IF m.ok /\ m.name = "party"
         THEN [pc |-> "send_reply", reply |-> PartyText, cmd |-> NoCmd, parses |-> 1]
         ELSE IF m.ok
         THEN LET c == [image_key |-> m.image, image_tag |-> m.tag] IN
              IF IsConfigured(m.image)
              THEN [pc |-> "reg_ack", reply |-> AckText(Images(m.image), m.tag),
                    cmd |-> c, parses |-> 1]
              ELSE [pc |-> "reg_none", reply |-> NotConfiguredText(m.image),
                    cmd |-> c, parses |-> 1]
         ELSE IF m.kind = "DisplayHelp"
         THEN [pc |-> "send_reply", reply |-> ErrorToString(m), cmd |-> NoCmd, parses |-> 1]
         ELSE [pc |-> "send_reply", reply |-> RenderLongHelp, cmd |-> NoCmd, parses |-> 1]

\* Lines 202-209: msg_body is bound only for a text message in a joined room.
MsgBody(room_kind, msgtype, body) ==
    IF room_kind = "joined" /\ msgtype = "text" THEN body ELSE <<>>

\* The sync loop calls the handler with the next message event.
OnRoomMessage(room, msgtype, body, sender) ==
    /\ proc = "running"
    /\ HandlerFree
    /\ delivered < MaxEvents
    /\ delivered' = delivered + 1
    /\ LET r == Route(roomState[room], msgtype, body, sender) IN
        /\ pc' = r.pc
        /\ reply' = r.reply
        /\ cmd' = r.cmd
        /\ parses' = r.parses
    /\ msg' = [room |-> room, room_kind |-> roomState[room], msgtype |-> msgtype,
               body |-> MsgBody(roomState[room], msgtype, body), sender |-> sender,
               event_id |-> EventId(delivered + 1)]
    /\ log' = <<>>
    /\ output' = NoOutput
    /\ ops' = <<>>
    /\ ret' = "none"
    /\ UNCHANGED <<proc, roomState, members, tasks, issued>>

\* The room call being made: which room, and for which event.
EventNo(event_id) == CHOOSE n \in 1..MaxEvents : EventId(n) = event_id
Issue == << msg.room, EventNo(msg.event_id) >>

\* room.send(text_plain(..)).await.unwrap() of gm, party and the help texts.
SendReply ==
    /\ proc = "running"
    /\ pc = "send_reply"
    /\ \E ok \in BOOLEAN :
        /\ ops' = Append(ops, Op("send_plain", << reply >>, ok))
        /\ issued' = Append(issued, Issue)
        /\ IF ok THEN pc' = AfterCommand(msg.body) /\ UNCHANGED proc ELSE Panic
    /\ UNCHANGED <<roomState, delivered, members, tasks, msg, reply, cmd, log, output, parses, ret>>

\* otcbot_registry, None arm: one plain message, then Ok(()).
RegistryNotConfigured ==
    /\ proc = "running"
    /\ pc = "reg_none"
    /\ \E ok \in BOOLEAN :
        /\ ops' = Append(ops, Op("send_plain", << reply >>, ok))
        /\ issued' = Append(issued, Issue)
        /\ IF ok
           THEN pc' = AfterCommand(msg.body) /\ ret' = "Ok" /\ UNCHANGED proc
           ELSE Panic /\ UNCHANGED ret
    /\ UNCHANGED <<roomState, delivered, members, tasks, msg, reply, cmd, log, output, parses>>

\* The order of the awaits and of the process call in the Some arm
\* (lines 277-312): where the action stands after the step at `at`.
RegistryStep(at) ==
    CASE at = "reg_ack" -> "reg_typing_on"
      [] at = "reg_typing_on" -> "reg_exec"
      [] at = "reg_exec" -> "reg_exec_wait"
      [] at = "reg_exec_wait" -> "reg_send_log"
      [] at = "reg_send_log" -> "reg_typing_off"

\* otcbot_registry, Some arm: the "Got it" message.
RegistryAck ==
    /\ proc = "running"
    /\ pc = "reg_ack"
    /\ \E ok \in BOOLEAN :
        /\ ops' = Append(ops, Op("send_plain", << reply >>, ok))
        /\ issued' = Append(issued, Issue)
        /\ IF ok THEN pc' = RegistryStep("reg_ack") /\ UNCHANGED proc ELSE Panic
    /\ UNCHANGED <<roomState, delivered, members, tasks, msg, reply, cmd, log, output, parses, ret>>

\* room.typing_notice(true).await.unwrap()
RegistryTypingOn ==
    /\ proc = "running"
    /\ pc = "reg_typing_on"
    /\ \E ok \in BOOLEAN :
        /\ ops' = Append(ops, Op("typing", << <<"true">> >>, ok))
        /\ issued' = Append(issued, Issue)
        /\ IF ok THEN pc' = RegistryStep("reg_typing_on") /\ UNCHANGED proc ELSE Panic
    /\ UNCHANGED <<roomState, delivered, members, tasks, msg, reply, cmd, log, output, parses, ret>>

\* Lines 288-300: the transcript head is built and the process is started;
\* .expect() panics when it cannot be started.
RegistryExec ==
    /\ proc = "running"
    /\ pc = "reg_exec"
    /\ LET args == CommandArgs(Images(cmd.image_key), cmd.image_tag) IN
        \E started \in BOOLEAN :
            /\ log' = LogHead(args)
            /\ ops' = Append(ops, Op("exec", << <<SKOPEO>> >> \o args, started))
            /\ IF started THEN pc' = RegistryStep("reg_exec") /\ UNCHANGED proc ELSE Panic
    /\ UNCHANGED <<roomState, delivered, members, tasks, issued, msg, reply, cmd, output, parses, ret>>

\* The stream that goes into the transcript (lines 303-307).
ChosenStream(out) == IF out.success THEN out.stdout ELSE out.stderr

\* Lines 300-309: the process returns; its stdout or stderr is decoded
\* (.unwrap() panics on invalid UTF-8) and the transcript is closed.
RegistryExecReturn ==
    /\ proc = "running"
    /\ pc = "reg_exec_wait"
    /\ \E out \in Outputs :
        LET decoded == FromUtf8(ChosenStream(out)) IN
        /\ output' = out
        /\ IF decoded.ok
           THEN /\ log' = log \o <<"\n">> \o decoded.text \o LogClose
                /\ pc' = RegistryStep("reg_exec_wait")
                /\ UNCHANGED proc
           ELSE /\ log' = log \o <<"\n">>
                /\ Panic
    /\ UNCHANGED <<roomState, delivered, members, tasks, issued, msg, reply, cmd, ops, parses, ret>>

\* room.send(text_markdown(log)).await.unwrap()
RegistrySendLog ==
    /\ proc = "running"
    /\ pc = "reg_send_log"
    /\ \E ok \in BOOLEAN :
        /\ ops' = Append(ops, Op("send_markdown", << log >>, ok))
        /\ issued' = Append(issued, Issue)
        /\ IF ok THEN pc' = RegistryStep("reg_send_log") /\ UNCHANGED proc ELSE Panic
    /\ UNCHANGED <<roomState, delivered, members, tasks, msg, reply, cmd, log, output, parses, ret>>

\* room.typing_notice(false).await.unwrap(); Ok(()) and back in the router.
RegistryTypingOff ==
    /\ proc = "running"
    /\ pc = "reg_typing_off"
    /\ \E ok \in BOOLEAN :
        /\ ops' = Append(ops, Op("typing", << <<"false">> >>, ok))
        /\ issued' = Append(issued, Issue)
        /\ IF ok
           THEN pc' = AfterCommand(msg.body) /\ ret' = "Ok" /\ UNCHANGED proc
           ELSE Panic /\ UNCHANGED ret
    /\ UNCHANGED <<roomState, delivered, members, tasks, msg, reply, cmd, log, output, parses>>

\* room.read_receipt(&event.event_id).await.unwrap()
ReadReceipt ==
    /\ proc = "running"
    /\ pc = "receipt"
    /\ \E ok \in BOOLEAN :
        /\ ops' = Append(ops, Op("read_receipt", << msg.event_id >>, ok))
        /\ issued' = Append(issued, Issue)
        /\ IF ok THEN pc' = "done" /\ UNCHANGED proc ELSE Panic
    /\ UNCHANGED <<roomState, delivered, members, tasks, msg, reply, cmd, log, output, parses, ret>>

\* ----------------------------------------------------------------- sync_loop
\* A message event in the response of the initial sync_once (line 108): only
\* on_stripped_state_member is registered, nothing is called for it.
InitialSyncMessage ==
    /\ proc = "running"
    /\ pc = "unregistered"
    /\ delivered < MaxEvents
    /\ delivered' = delivered + 1
    /\ UNCHANGED <<proc, roomState, members, tasks, issued, handlerVars>>

\* sync_once returns; on_room_message is registered and client.sync starts
\* from the sync token, after what the initial sync delivered (lines 108-120).
SyncOnceReturns ==
    /\ proc = "running"
    /\ pc = "unregistered"
    /\ pc' = "idle"
    /\ UNCHANGED <<proc, roomState, delivered, members, tasks, issued,
                   msg, reply, cmd, log, output, ops, parses, ret>>

\* Where main's select! can take ctrl_c: at an await of the main future. From
\* the return of typing_notice to the return of the process the handler runs
\* without awaiting (Command::output blocks the thread).
AtAwait == pc \notin {"reg_exec", "reg_exec_wait"}

\* signal::ctrl_c() wins the select! (lines 49-53): main returns, the main
\* future and the runtime with its tasks are dropped.
Shutdown ==
    /\ proc = "running"
    /\ AtAwait
    /\ proc' = "shutdown"
    /\ UNCHANGED <<roomState, delivered, members, tasks, issued, handlerVars>>

\* ------------------------------------------------------------ specification
Next ==
    \/ InitialSyncMessage
    \/ SyncOnceReturns
    \/ \E room \in Rooms, state_key \in UserIds : OnStrippedStateMember(room, state_key)
    \/ \E i \in 1..MaxEvents : TaskJoin(i)
    \/ \E i \in 1..MaxEvents : TaskWake(i)
    \/ \E room \in Rooms, msgtype \in MsgTypes :
        \E body \in BodiesOf(msgtype), sender \in Senders :
            OnRoomMessage(room, msgtype, body, sender)
    \/ SendReply
    \/ RegistryNotConfigured
    \/ RegistryAck
    \/ RegistryTypingOn
    \/ RegistryExec
    \/ RegistryExecReturn
    \/ RegistrySendLog
    \/ RegistryTypingOff
    \/ ReadReceipt

\* login_and_sync and the tasks it spawned, for as long as it is polled.
Spec == Init /\ [][Next]_vars

\* main: tokio::select! over login_and_sync and signal::ctrl_c().
Main ==
    \/ Next
    \/ Shutdown

SpecMain == Init /\ [][Main]_vars

\* ================================================================== claims
RECURSIVE Pow2(_)
Pow2(k) == IF k = 0 THEN 1 ELSE 2 * Pow2(k - 1)

TaskIds == 1..Len(tasks)
Abandoned(t) == t.pc = "done" /\ ~t.last_ok
Joined(t) == t.pc = "done" /\ t.last_ok
DiagsOf(t, kind) == SelectSeq(t.diags, LAMBDA d : d.kind = kind)

\* C1: in one invitation's retry sequence the delay starts at 2, the delay
\* slept after the k-th failed attempt is 2^k, the delays never decrease, and
\* once the doubled delay exceeds 3600 the task is Abandoned: it is never
\* again about to join, and it made exactly as many attempts as it slept.
C1_BackoffDoubles ==
    \A i \in TaskIds :
        LET t == tasks[i] IN
        /\ \A k \in 1..Len(t.slept) : t.slept[k] = Pow2(k)
        /\ \A k \in 1..(Len(t.slept) - 1) : t.slept[k] <= t.slept[k + 1]
        /\ t.attempts = 0 => t.delay = 2
        /\ t.pc = "sleep" => t.attempts = Len(t.slept) + 1 /\ t.delay = Pow2(t.attempts)
        /\ t.pc = "join" => t.attempts = Len(t.slept) /\ t.delay <= 3600
        /\ t.delay > 3600 => Abandoned(t) /\ t.attempts = Len(t.slept)
        /\ Abandoned(t) => t.delay > 3600

\* C1 witness: a sequence that failed all the way and was given up after the
\* sleep of 2048.
C1_Witness ==
    \E i \in TaskIds :
        Abandoned(tasks[i]) /\ tasks[i].attempts = 11 /\ tasks[i].slept[11] = 2048

\* C2: the success diagnostic is printed only by a sequence whose join
\* succeeded; an Abandoned sequence prints the terminal failure diagnostic and
\* no success diagnostic; every failed attempt prints a failure diagnostic
\* with the room id and the delay about to be slept.
C2_SuccessOnlyWhenJoined ==
    \A i \in TaskIds :
        LET t == tasks[i]
            failed == DiagsOf(t, "failed")
        IN
        /\ Len(DiagsOf(t, "joined")) > 0 => Joined(t)
        /\ Abandoned(t) => Len(DiagsOf(t, "cant_join")) = 1 /\ Len(DiagsOf(t, "joined")) = 0
        /\ Len(failed) = Len(t.slept) + (IF t.pc = "sleep" THEN 1 ELSE 0)
        /\ \A k \in 1..Len(failed) : failed[k] = Diag("failed", t.room, Pow2(k))

\* C3: a task (and with it every join attempt) exists only for a member
\* event whose state_key is the bot's own user id and whose room is Invited;
\* other member events spawn nothing.
C3_JoinOnlyOwnInvite ==
    /\ Len(tasks) <= members
    /\ \A i \in TaskIds :
        tasks[i].state_key = OwnUserId /\ tasks[i].room_kind = "invited"

\* C3 witness: of two member events one was ignored and the other led to a
\* join attempt.
C3_Witness ==
    /\ members = 2
    /\ Len(tasks) = 1
    /\ tasks[1].attempts >= 1

\* ------------------------------------------------ the handled message
OpsOf(kind) == SelectSeq(ops, LAMBDA o : o.op = kind)
\* Everything the handler did in the room or on the host except the receipt.
Responses == SelectSeq(ops, LAMBDA o : o.op # "read_receipt")
SinkFailed == \E k \in 1..Len(ops) : ops[k].op # "exec" /\ ~ops[k].ok
HandlerEnded == pc \in {"done", "panicked"}

TextInJoinedRoom == msg.msgtype = "text" /\ msg.room_kind = "joined"
Qualifying == TextInJoinedRoom /\ StartsWith(msg.body, PREFIX)
\* The words after the first one.
MsgArgs == Tail(Split(msg.body, SP))
IsImportArgs(a) ==
    /\ Len(a) = 4
    /\ a[1] = <<"registry">>
    /\ a[2] = <<"import">>
    /\ a[3] \notin { <<"-h">>, <<"--help">> }
    /\ a[4] \notin { <<"-h">>, <<"--help">> }

\* Exactly one plain message `text` is sent (or is the one about to be sent)
\* and nothing else is done in the room or on the host.
OneReply(text) ==
    IF pc = "send_reply"
    THEN Responses = <<>> /\ reply = text
    ELSE /\ Len(Responses) = 1
         /\ Responses[1].op = "send_plain"
         /\ Responses[1].args = << text >>
NoAction == cmd = NoCmd /\ ret = "none" /\ log = <<>>
IsHelpText(t) == Len(t) > 0 /\ t[1] \in {"Usage: ", "An awesome OTC Bot"}

\* C4: a text message in a joined room whose body begins with the prefix is
\* parsed once and has exactly one outcome: `gm` one greeting naming the
\* sender, `party` one fixed message, `registry import I T` the import
\* action with image key I and tag T, and anything else (help, unknown
\* subcommand, missing or surplus arguments) one non-empty help text and no
\* action.
C4_OneOutcomePerCommand ==
    Qualifying =>
        /\ parses = 1
        /\ MsgArgs = << <<"gm">> >> => OneReply(<<"Hey ", msg.sender>>) /\ NoAction
        /\ MsgArgs = << <<"party">> >> => OneReply(<<"let's PARTY!!">>) /\ NoAction
        /\ IsImportArgs(MsgArgs) =>
                /\ cmd = [image_key |-> MsgArgs[3], image_tag |-> MsgArgs[4]]
                /\ pc \in {"reg_ack", "reg_none"} \/ Len(Responses) >= 1
        /\ ( /\ MsgArgs # << <<"gm">> >>
             /\ MsgArgs # << <<"party">> >>
             /\ ~IsImportArgs(MsgArgs) ) =>
                IsHelpText(reply) /\ OneReply(reply) /\ NoAction

\* C4 witness: `!otcbot registry import foo` (no TAG) was answered with the
\* long help and acknowledged.
C4_Witness ==
    /\ Qualifying
    /\ MsgArgs = << <<"registry">>, <<"import">>, <<"foo">> >>
    /\ pc = "done"
    /\ Len(Responses) = 1
    /\ Responses[1].ok
    /\ Responses[1].args[1][1] = "An awesome OTC Bot"

\* C5: messages are sent, typing is signalled, the process is run and the
\* grammar is invoked only for a plain-text message in a joined room whose
\* first token is the prefix token `!otcbot`.
C5_OnlyPrefixTokenTriggers ==
    (Len(Responses) > 0 \/ parses > 0) =>
        TextInJoinedRoom /\ Head(Split(msg.body, SP)) = << "!otcbot" >>

\* C6: a text message with a non-empty body in a joined room gets exactly one
\* read receipt for its event id once its handling has ended, whatever the
\* command (stated for the runs in which no call on the room failed);
\* non-text messages and messages in other rooms get none.
C6_EveryTextMessageAcknowledged ==
    LET receipts == OpsOf("read_receipt") IN
    /\ ~TextInJoinedRoom => receipts = <<>>
    /\ Len(receipts) <= 1
    /\ \A k \in 1..Len(receipts) : receipts[k].args = << msg.event_id >>
    /\ (TextInJoinedRoom /\ Len(msg.body) > 0 /\ HandlerEnded /\ ~SinkFailed)
            => Len(receipts) = 1

\* ------------------------------------------------ the registry import
ImportOf(configured) ==
    /\ Qualifying
    /\ IsImportArgs(MsgArgs)
    /\ (MsgArgs[3] \in ConfiguredKeys) = configured

\* s contains sub as a contiguous run of pieces.
Contains(s, sub) ==
    \E k \in 1..(Len(s) - Len(sub) + 1) : SubSeq(s, k, k + Len(sub) - 1) = sub

\* C7: an import of an image key that is not in the mapping sends exactly one
\* plain "Image <key> is not configured" message and nothing else: no
\* acknowledgement, no transcript, no typing signal, no process; when the room
\* accepts that message the action returns Ok(()).
C7_UnconfiguredImport ==
    ImportOf(FALSE) =>
        /\ IF pc = "reg_none"
           THEN Responses = <<>>
           ELSE /\ Len(Responses) = 1
                /\ Responses[1].op = "send_plain"
                /\ Responses[1].args =
                     << <<"Image ">> \o MsgArgs[3] \o <<" is not configured">> >>
                /\ Responses[1].ok => ret = "Ok" /\ pc \in {"receipt", "done", "panicked"}
                /\ (pc = "panicked" /\ Responses[1].ok) => ~ops[Len(ops)].ok
        /\ log = <<>>
        /\ output = NoOutput

\* C7 witness: `registry import bar v1` was answered and the action returned.
C7_Witness ==
    /\ ImportOf(FALSE)
    /\ MsgArgs[3] = <<"bar">>
    /\ pc = "done"
    /\ ret = "Ok"
    /\ Len(Responses) = 1

\* C8: for a configured image key {upstream U, downstream D} and tag T the
\* process is started at most once, exactly once when the action has passed
\* the typing signal, with the arguments copy, docker://U:T, docker://D:T, -a;
\* the second line of the transcript names the same arguments in that order.
C8_ExactInvocation ==
    ImportOf(TRUE) =>
        LET key == MsgArgs[3]
            T == MsgArgs[4]
            U == Images(key).upstream
            D == Images(key).downstream
            expected == << <<"copy">>, <<"docker://">> \o U \o <<":">> \o T,
                           <<"docker://">> \o D \o <<":">> \o T, <<"-a">> >>
            execs == OpsOf("exec")
            sent == OpsOf("send_markdown")
        IN
        /\ Len(execs) <= 1
        /\ pc \in {"reg_ack", "reg_typing_on", "reg_exec"} => execs = <<>>
        /\ (pc \in {"reg_exec_wait", "reg_send_log", "reg_typing_off"} \/ ret = "Ok")
                => Len(execs) = 1
        /\ \A k \in 1..Len(execs) : execs[k].args = << <<"/usr/local/bin/skopeo">> >> \o expected
        /\ (key = <<"foo">> /\ T = <<"v1">>) =>
                expected = << <<"copy">>, <<"docker://", "a/b", ":", "v1">>,
                              <<"docker://", "c/d", ":", "v1">>, <<"-a">> >>
        /\ log # <<>> =>
                /\ Len(execs) = 1
                /\ Split(Split(log, "\n")[2], SP) = << <<"otcbot$> skopeo">> >> \o expected
        /\ \A k \in 1..Len(sent) : sent[k].args = << log >>

\* C8 witness: skopeo ran for `registry import etcd v2` and the transcript
\* went out.
C8_Witness ==
    /\ ImportOf(TRUE)
    /\ MsgArgs[3] = <<"etcd">>
    /\ Len(OpsOf("exec")) = 1
    /\ Len(OpsOf("send_markdown")) = 1
    /\ ret = "Ok"

\* C9: for a configured image key the action does, in this order and each
\* exactly once: acknowledgement, typing start, process, one transcript,
\* typing stop (stated for the runs in which the process started and no call
\* on the room failed); the steps done so far are always a prefix of that
\* order.
C9_StepsInOrderExactlyOnce ==
    ImportOf(TRUE) =>
        LET order == << "send_plain", "typing", "exec", "send_markdown", "typing" >>
            done == [k \in 1..Len(Responses) |-> Responses[k].op]
        IN
        /\ Len(done) <= 5
        /\ done = SubSeq(order, 1, Len(done))
        /\ Len(done) >= 2 => Responses[2].args = << <<"true">> >>
        /\ Len(done) >= 5 => Responses[5].args = << <<"false">> >>
        /\ Len(done) >= 4 => output \in Outputs
        /\ ( /\ pc \in {"receipt", "done", "panicked"}
             /\ \A k \in 1..Len(ops) : ops[k].ok )
                => Len(done) = 5

\* C10: the transcript holds stdout after a successful exit and stderr after
\* an unsuccessful one; after a non-zero exit the transcript is still sent as
\* one message, typing is stopped and the action returns Ok(()) (stated for
\* the runs in which no call on the room failed).
C10_NonZeroExitIsReported ==
    (ImportOf(TRUE) /\ output \in Outputs) =>
        LET sent == OpsOf("send_markdown")
            stops == SelectSeq(ops, LAMBDA o : o.op = "typing" /\ o.args = << <<"false">> >>)
        IN
        /\ \A k \in 1..Len(sent) :
                Contains(sent[k].args[1],
                         IF output.success THEN output.stdout.text ELSE output.stderr.text)
        /\ Len(sent) <= 1
        /\ ( /\ ~output.success
             /\ pc \in {"receipt", "done", "panicked"}
             /\ ~SinkFailed )
                => Len(sent) = 1 /\ Len(stops) = 1 /\ ret = "Ok"

\* ------------------------------------------------ failures and concurrency
ExecOps == OpsOf("exec")
StartFailed == Len(ExecOps) > 0 /\ ~ExecOps[Len(ExecOps)].ok

\* The sync loop hands the next notification to its handler.
Deliver ==
    \/ \E room \in Rooms, state_key \in UserIds : OnStrippedStateMember(room, state_key)
    \/ \E room \in Rooms, msgtype \in MsgTypes :
        \E body \in BodiesOf(msgtype), sender \in Senders :
            OnRoomMessage(room, msgtype, body, sender)

\* C11: a send, typing or read-receipt call that fails while one message is
\* handled ends the handling of that message only: the process is not
\* terminated by it and the next notification can still be taken up.
C11_SendFailureAbortsOnlyThatHandling ==
    (SinkFailed /\ delivered < MaxEvents) => (proc # "crashed" /\ ENABLED Deliver)

\* C12: when the external process cannot be started, the import fails as one
\* action (otcbot_registry returns an error to the router), the router does
\* not crash and the process goes on handling notifications.
C12_StartFailureIsConfined ==
    StartFailed => (proc # "crashed" /\ pc # "panicked" /\ ret = "Err")

\* C13: while the external process of an import is running, another
\* notification (a message, an invitation) can be handed to its handler.
C13_DeliveryDuringExternalProcess ==
    (proc = "running" /\ pc = "reg_exec_wait" /\ delivered < MaxEvents) => ENABLED Deliver

\* The sync loop hands the next message to on_room_message.
Receive ==
    \E room \in Rooms, msgtype \in MsgTypes :
        \E body \in BodiesOf(msgtype), sender \in Senders :
            OnRoomMessage(room, msgtype, body, sender)

InBackoff == \E i \in TaskIds : tasks[i].pc = "sleep"

\* C14: the retry sequences of two distinct rooms are independent under every
\* interleaving: a new sequence starts with its own delay of 2 and leaves the
\* existing ones as they are, a step of one sequence (a failure, a doubling,
\* Joined, Abandoned) leaves the delay, the attempt count and the outcome of
\* the other unchanged, and a sequence that waits in its backoff does not
\* keep a message from being handled.
C14_IndependentSequences ==
    /\ [][/\ \A i \in TaskIds, j \in TaskIds :
                (tasks[i].room # tasks[j].room /\ tasks'[i] # tasks[i])
                    => tasks'[j] = tasks[j]
          /\ Len(tasks') > Len(tasks) =>
                /\ SubSeq(tasks', 1, Len(tasks)) = tasks
                /\ tasks'[Len(tasks')].delay = InitialDelay
                /\ tasks'[Len(tasks')].attempts = 0]_vars
    /\ []((InBackoff /\ proc = "running" /\ HandlerFree /\ delivered < MaxEvents)
            => ENABLED Receive)

\* C14 witness: the sequence of one room was given up after 11 failures while
\* the sequence of the other room, after its first failure, still waits with
\* a delay of 2.
C14_Witness ==
    \E i \in TaskIds, j \in TaskIds :
        /\ tasks[i].room # tasks[j].room
        /\ Abandoned(tasks[i]) /\ tasks[i].attempts = 11
        /\ tasks[j].pc = "sleep" /\ tasks[j].delay = InitialDelay /\ tasks[j].attempts = 1

\* C15: once the shutdown signal has been taken the whole process has
\* stopped: a sequence that sleeps in its backoff is not woken, and no join
\* attempt, no external process, no room call and no handler is started.
C15_ShutdownStopsEverything ==
    proc = "shutdown" =>
        /\ ~ENABLED (\E i \in 1..MaxEvents : TaskJoin(i) \/ TaskWake(i))
        /\ ~ENABLED (RegistryExec \/ RegistryExecReturn)
        /\ ~ENABLED Main

\* C15 witness: the shutdown was taken while one sequence slept in its
\* backoff and an import had sent its "Got it" but not yet started the
\* external process.
C15_Witness ==
    /\ proc = "shutdown"
    /\ InBackoff
    /\ pc = "reg_typing_on"

\* ------------------------------------------------ termination of a sequence
RECURSIVE Sum(_)
Sum(q) == IF q = <<>> THEN 0 ELSE Head(q) + Sum(Tail(q))

\* The steps a sequence has left at most: two per attempt still allowed.
Rank(t) ==
    CASE t.pc = "done" -> 0
      [] t.pc = "sleep" -> 2 * (12 - t.attempts) + 1
      [] t.pc = "join" -> 2 * (12 - t.attempts)

\* C16: every invite-join sequence terminates. It never makes more than 11
\* join attempts nor sleeps more than 4094 seconds in all; while the process
\* runs, a sequence that is neither Joined nor Abandoned can take its next
\* step, and each step brings it strictly closer to its end, so no failure is
\* retried beyond that.
C16_SequenceTerminates ==
    /\ [](\A i \in TaskIds :
            /\ tasks[i].attempts <= 11
            /\ Sum(tasks[i].slept) <= 4094
            /\ Rank(tasks[i]) >= 0
            /\ tasks[i].pc = "done" => Joined(tasks[i]) \/ Abandoned(tasks[i])
            /\ (TaskAlive /\ tasks[i].pc # "done") => ENABLED (TaskJoin(i) \/ TaskWake(i)))
    /\ [][\A i \in TaskIds :
            tasks'[i] # tasks[i] => Rank(tasks'[i]) < Rank(tasks[i])]_vars

\* C16 witness: a sequence that used all it is allowed: 11 failed attempts
\* and 2 + 4 + ... + 2048 = 4094 seconds of backoff, then Abandoned.
C16_Witness ==
    \E i \in TaskIds :
        /\ Abandoned(tasks[i])
        /\ tasks[i].attempts = 11
        /\ Sum(tasks[i].slept) = 4094
        /\ Rank(tasks[i]) = 0

\* ------------------------------------------------------------- initial sync
\* The handler of messages has been called for nothing yet.
NothingHandled ==
    /\ msg = NoMsg /\ parses = 0 /\ cmd = NoCmd
    /\ ops = <<>> /\ issued = <<>> /\ log = <<>> /\ ret = "none"

\* C17: until the initial sync has returned, the messages it delivers cause
\* no room call, no external process and no read receipt, and none of them is
\* taken up later: the message handler only ever starts on the event that is
\* delivered at that moment, after it was registered. An invitation for the
\* bot that the initial sync delivers starts its retry sequence.
C17_InitialSyncMessagesIgnored ==
    /\ [](pc = "unregistered" => NothingHandled)
    /\ []((pc = "unregistered" /\ proc = "running" /\ delivered < MaxEvents) =>
            \A room \in Rooms : roomState[room] = "invited" =>
                ENABLED (OnStrippedStateMember(room, OwnUserId)
                            /\ Len(tasks') = Len(tasks) + 1))
    /\ [][msg' # msg =>
            /\ pc # "unregistered"
            /\ delivered' = delivered + 1
            /\ msg'.event_id = EventId(delivered')]_vars

\* C17 witness: the initial sync has delivered a message and an invitation;
\* the invitation's sequence has made an attempt, the message caused nothing.
C17_Witness ==
    /\ pc = "unregistered"
    /\ delivered = 2 /\ members = 1
    /\ Len(tasks) = 1 /\ tasks[1].attempts >= 1
    /\ NothingHandled

\* ------------------------------------------------------------ arrival order
\* C18: the messages of one room are processed in arrival order: every room
\* call (response, typing signal, read receipt) caused by a message is made
\* before any call caused by a later message of the same room. The handler is
\* not started on a message while the calls of an earlier one are still
\* outstanding, and each call is made for the message being handled.
C18_SameRoomInArrivalOrder ==
    /\ [](\A i \in 1..Len(issued), j \in 1..Len(issued) :
            (i < j /\ issued[i][1] = issued[j][1]) => issued[i][2] <= issued[j][2])
    /\ [][msg' # msg => (pc \in {"idle", "done"} /\ ops' = <<>> /\ issued' = issued)]_vars
    /\ [][issued' # issued =>
            /\ msg' = msg
            /\ issued' = Append(issued, << msg.room, EventNo(msg.event_id) >>)
            /\ Len(ops') = Len(ops) + 1]_vars

\* C18 witness: two messages of one room, each answered and receipted; the
\* calls of the first all come before the calls of the second.
C18_Witness ==
    /\ Len(issued) = 4
    /\ issued[1][1] = issued[4][1]
    /\ issued[2][2] = 1 /\ issued[3][2] = 2
    /\ pc = "done"

\* ------------------------------------------------------ one sequence per room
Active(t) == t.pc # "done"

\* C19: at most one retry sequence is active per room: a second invitation
\* event for a room whose sequence has not ended starts no second sequence.
C19_OneSequencePerRoom ==
    \A i \in TaskIds, j \in TaskIds :
        (i # j /\ tasks[i].room = tasks[j].room) => ~(Active(tasks[i]) /\ Active(tasks[j]))

\* ------------------------------------------------------------ typing signal
TypingOps(on) == SelectSeq(ops, LAMBDA o : o.op = "typing" /\ o.args = << << on >> >>)
TypingStarted == \E k \in 1..Len(TypingOps("true")) : TypingOps("true")[k].ok

\* C20: an import that has signalled typing start signals typing stop before
\* its handling ends, whichever way it ends.
C20_TypingStopFollowsStart ==
    (TypingStarted /\ HandlerEnded) => Len(TypingOps("false")) > 0

====
